---- MODULE Spec2Model ----
(***************************************************************************)
(* Session-and-authorization core of alx-polly:                            *)
(*   - the auth server actions (login, register, logout, getCurrentUser,   *)
(*     getSession) in front of the credential backend adapter,             *)
(*   - the LoginPage component (loading / error state, handleSubmit),      *)
(*   - the PollActions component (ownership guard, handleDelete).          *)
(*                                                                         *)
(* Nullable values are encoded as sequences: Null is << >> and a present   *)
(* value v is <<v>>, so that null, the empty string and a non-empty        *)
(* string are three different values, as they are in JavaScript.           *)
(***************************************************************************)
EXTENDS Integers, Sequences, FiniteSets, TLC

\* ---------------------------------------------------------------- bounds
MaxSubmits == 2     \* submit events delivered to the login form
MaxAuthOps == 3     \* direct calls of the auth actions
MaxClicks  == 2     \* clicks on the Delete button

\* ---------------------------------------------------------------- values
Null == << >>
Some(v) == << v >>
Val(n) == n[1]

Emails    == {"a@x.com", "b@x.com"}
Passwords == {"secret", "wrong"}
Names     == {"Ada", "Grace"}
\* Error texts the adapter may supply: opaque strings, the empty one included.
Messages  == {"", "Invalid login credentials", "User already registered"}

\* The provider's user id of an account (one id per email).
IdOf(email) == IF email = "a@x.com" THEN "1" ELSE "2"
Ids == {IdOf(e) : e \in Emails}

LandingRoute == "/polls"
LoginRoute   == "/login"

\* JavaScript truthiness of a `string | null` value (if (result?.error), error && ...)
TruthyStr(s) == s # Null /\ Val(s) # ""
\* JavaScript truthiness of an `object | null` value (if (error), user && ...)
TruthyObj(o) == o # Null

VARIABLES
    accounts,     \* adapter: email -> Null | Some([password, name])
    session,      \* adapter: server-tracked session, Null | Some(user)
    lastCall,     \* the auth action that ran last: its input, the adapter's answer, its outcome
    prevCall,     \* the auth action that ran before lastCall
    page,         \* route the client is on
    loading,      \* LoginPage useState(false)
    error,        \* LoginPage useState<string | null>(null)
    pending,      \* handleSubmit invocations suspended at `await login(...)`
    navigated,    \* LoginPage assigned window.location.href
    flowLog,      \* the login outcome handleSubmit consumed last, and the branch it took
    ctxUser,      \* Session Context: user value handed out by useAuth()
    ctxResolved,  \* Session Context: first getCurrentUser() has resolved
    poll,         \* the poll PollActions is given
    pollStored,   \* the poll still exists on the server
    cardShown,    \* the loaded page lists the poll (PollActions is mounted)
    clicks,       \* one record per click on Delete: the prompt's answer and how far handleDelete got
    reloading,    \* handleDelete called window.location.reload(), the page has not unloaded yet
    nSubmits,     \* submit events delivered so far
    nAuthOps      \* direct calls of the auth actions so far

authVars == << accounts, session, lastCall, prevCall >>
flowVars == << loading, error, pending, navigated, flowLog, nSubmits >>
ctxVars  == << ctxUser, ctxResolved >>
pollVars == << poll, pollStored, cardShown, clicks, reloading >>
vars == << accounts, session, lastCall, prevCall, page, loading, error,
           pending, navigated, flowLog, ctxUser, ctxResolved, poll, pollStored, cardShown, clicks,
           reloading, nSubmits, nAuthOps >>

\* ------------------------------------------------- credential backend adapter
\* The provider's user record of an account.
UserOf(email, name) == [id |-> IdOf(email), email |-> email, name |-> name]
AuthError(m) == Some([message |-> m])

\* supabase.auth.signInWithPassword: the answers the adapter may give. It accepts
\* only a registered email with its password, and then tracks the session of that
\* account; it may reject any request, with any message, and then the session
\* stays as it was.
signInWithPassword(req) ==
    LET acct == accounts[req.email]
        rejects == {[error |-> AuthError(m), session |-> session] : m \in Messages}
        accepts == IF acct # Null /\ Val(acct).password = req.password
                   THEN {[error |-> Null,
                          session |-> Some(UserOf(req.email, Val(acct).name))]}
                   ELSE {}
    IN  accepts \cup rejects

\* supabase.auth.signUp: creates the account with its profile metadata and signs
\* it in, or rejects (a duplicate registration is always rejected).
signUp(req) ==
    LET rejects == {[error |-> AuthError(m), session |-> session, accounts |-> accounts]
                        : m \in Messages}
        creates == IF accounts[req.email] = Null /\ req.name # Null
                   THEN {[error |-> Null,
                          session |-> Some(UserOf(req.email, Val(req.name))),
                          accounts |-> [accounts EXCEPT ![req.email] =
                                           Some([password |-> req.password,
                                                 name |-> Val(req.name)])]]}
                   ELSE {}
    IN  creates \cup rejects

\* supabase.auth.signOut: clears the session, or fails with a message and leaves
\* it. With no session there is nothing to revoke: it succeeds.
signOut ==
    {[error |-> Null, session |-> Null]}
        \cup (IF session = Null THEN {}
              ELSE {[error |-> AuthError(m), session |-> session] : m \in Messages})

\* supabase.auth.getUser / getSession: data.user and data.session of the answer.
getUser == [data |-> [user |-> session]]
getSessionData == [data |-> [session |-> session]]

\* ------------------------------------------------------------ auth actions
\* login: the request it hands to signInWithPassword.
loginRequest(data) ==
    [method |-> "signInWithPassword", email |-> data.email,
     password |-> data.password, name |-> Null]

\* login testing the message instead of the error object: `if (error?.message)`.
loginResultTestsMessage(adapterError) ==
    IF adapterError # Null /\ Val(adapterError).message # ""
    THEN [error |-> Some(Val(adapterError).message)]
    ELSE [error |-> Null]

\* login dropping the adapter's error: it always returns `{ error: null }`.
loginResultNeverFails(adapterError) == [error |-> Null]

\* login: `if (error) return { error: error.message }; return { error: null }`
loginResult(adapterError) ==
    IF TruthyObj(adapterError) THEN [error |-> Some(Val(adapterError).message)]
    ELSE [error |-> Null]

\* register: the request it hands to signUp (the name rides in options.data).
registerRequest(data) ==
    [method |-> "signUp", email |-> data.email,
     password |-> data.password, name |-> Some(data.name)]

registerResult(adapterError) ==
    IF TruthyObj(adapterError) THEN [error |-> Some(Val(adapterError).message)]
    ELSE [error |-> Null]

logoutResult(adapterError) ==
    IF TruthyObj(adapterError) THEN [error |-> Some(Val(adapterError).message)]
    ELSE [error |-> Null]

\* getCurrentUser reading a field the answer does not have (`data.session?.user` of
\* the getUser answer): always null.
getCurrentUserReadsNothing == Null

\* getCurrentUser: `return data.user`
getCurrentUser == getUser.data.user
\* getSession: `return data.session`
getSession == getSessionData.data.session

NoCall == [op |-> "none", data |-> Null, before |-> Null, calls |-> << >>,
           adapterError |-> Null, threw |-> FALSE, result |-> Null]

\* One run of an auth action, as the history variables record it: its input, the
\* session it found, the adapter calls it made, the adapter's error, and whether
\* it threw or what it returned.
Call(op, data, calls, adapterError, threw, result) ==
    [op |-> op, data |-> data, before |-> session, calls |-> calls,
     adapterError |-> adapterError, threw |-> threw, result |-> result]

\* A run of an auth action: the adapter state it leaves and its record.
Run(sess, accts, call) == [session |-> sess, accounts |-> accts, call |-> call]

\* login(data): every way one call can go. The adapter answers and login returns
\* loginResult of the answer, or createClient / the adapter call throws a
\* transport or provider failure (modelled as failing before the provider
\* changed anything) and login rejects.
login(data) ==
    {Run(resp.session, accounts,
         Call("login", Some(data), << loginRequest(data) >>, resp.error, FALSE,
              Some(loginResult(resp.error))))
        : resp \in signInWithPassword(loginRequest(data))}
    \cup {Run(session, accounts,
              Call("login", Some(data), << loginRequest(data) >>, Null, TRUE, Null))}

\* register setting the name in a follow-up write: signUp, then an updateUser call.
registerThenUpdatesName(data) ==
    {Run(resp.session, resp.accounts,
         Call("register", Some(data),
              << [registerRequest(data) EXCEPT !.name = Null],
                 [method |-> "updateUser", email |-> Null, password |-> Null,
                  name |-> Some(data.name)] >>,
              resp.error, FALSE, Some(registerResult(resp.error))))
        : resp \in signUp(registerRequest(data))}

\* register(data): one signUp call carrying the name as profile metadata.
register(data) ==
    {Run(resp.session, resp.accounts,
         Call("register", Some(data), << registerRequest(data) >>, resp.error, FALSE,
              Some(registerResult(resp.error))))
        : resp \in signUp(registerRequest(data))}
    \cup {Run(session, accounts,
              Call("register", Some(data), << registerRequest(data) >>, Null, TRUE, Null))}

logoutRequest == [method |-> "signOut", email |-> Null, password |-> Null, name |-> Null]

\* logout refusing to run without a session: it asks for the session first and
\* returns an error when there is none.
logoutRequiresSession ==
    IF session = Null
    THEN {Run(session, accounts,
              Call("logout", Null, << "getSession" >>, Null, FALSE,
                   Some([error |-> Some("No active session")])))}
    ELSE {Run(resp.session, accounts,
              Call("logout", Null, << logoutRequest >>, resp.error, FALSE,
                   Some(logoutResult(resp.error))))
             : resp \in signOut}

\* logout: every way one call can go. The adapter answers and logout returns
\* logoutResult of the answer, or the round trip to the provider fails and logout
\* rejects; with no session signOut makes no round trip.
logout ==
    {Run(resp.session, accounts,
         Call("logout", Null, << logoutRequest >>, resp.error, FALSE,
              Some(logoutResult(resp.error))))
        : resp \in signOut}
    \cup (IF session = Null THEN {}
          ELSE {Run(session, accounts,
                    Call("logout", Null, << logoutRequest >>, Null, TRUE, Null))})

\* The server runs one auth action to its end.
Serve(run) ==
    /\ session' = run.session
    /\ accounts' = run.accounts
    /\ lastCall' = run.call
    /\ prevCall' = lastCall

\* ------------------------------------------------------------- LoginPage
Credentials == [email : Emails, password : Passwords]

\* The submit button without its `disabled` attribute.
submitNeverDisabled == FALSE

\* <Button type="submit" disabled={loading}>: a disabled submit button delivers no
\* submit event, by click or by implicit submission. React commits the state set in
\* a submit handler before the browser dispatches the next event, so the attribute
\* always reflects `loading`.
submitDisabled == loading

\* The label of the submit button.
submitLabel == IF loading THEN "Logging in..." ELSE "Login"

\* {error && <p>{error}</p>}: the text shown, if any.
displayedError == IF TruthyStr(error) THEN error ELSE Null

\* handleSubmit without `setError(null)`: the last error stays while submitting.
handleSubmitKeepsError(data) ==
    /\ page = LoginRoute
    /\ ~submitDisabled
    /\ nSubmits < MaxSubmits
    /\ loading' = TRUE
    /\ pending' = Append(pending, [data |-> data, out |-> Null])
    /\ nSubmits' = nSubmits + 1
    /\ UNCHANGED << authVars, page, error, navigated, flowLog, ctxVars, pollVars,
                    nAuthOps >>

\* handleSubmit up to `await login(...)`: a submit event reaches the form.
handleSubmit(data) ==
    /\ page = LoginRoute
    /\ ~submitDisabled
    /\ nSubmits < MaxSubmits
    /\ loading' = TRUE
    /\ error' = Null
    /\ pending' = Append(pending, [data |-> data, out |-> Null])
    /\ nSubmits' = nSubmits + 1
    /\ UNCHANGED << authVars, page, navigated, flowLog, ctxVars, pollVars, nAuthOps >>

\* The server runs login for a call that is in flight; its outcome travels back.
loginServed(i) ==
    /\ pending[i].out = Null
    /\ \E run \in login(pending[i].data) :
          /\ Serve(run)
          /\ pending' = [pending EXCEPT ![i].out =
                            Some([threw |-> run.call.threw, result |-> run.call.result])]
    /\ UNCHANGED << page, loading, error, navigated, flowLog, nSubmits,
                    ctxVars, pollVars, nAuthOps >>

RemoveAt(seq, i) == [j \in 1..(Len(seq) - 1) |-> IF j < i THEN seq[j] ELSE seq[j + 1]]

\* The branch handleSubmit takes on a returned result: `if (result?.error)`.
resultIsError(result) == TruthyStr(result.error)

\* handleSubmit after the await, with the failure branch storing the error and
\* forgetting `setLoading(false)`.
handleSubmitResumesKeepsLoading(i) ==
    /\ page = LoginRoute
    /\ pending[i].out # Null
    /\ LET out == Val(pending[i].out) IN
         IF out.threw
         THEN /\ flowLog' = Some([out |-> out, did |-> "unhandled rejection"])
              /\ UNCHANGED << error, loading, navigated >>
         ELSE IF resultIsError(Val(out.result))
         THEN /\ error' = Val(out.result).error
              /\ flowLog' = Some([out |-> out, did |-> "failed"])
              /\ UNCHANGED << loading, navigated >>
         ELSE /\ navigated' = TRUE
              /\ flowLog' = Some([out |-> out, did |-> "navigate"])
              /\ UNCHANGED << error, loading >>
    /\ pending' = RemoveAt(pending, i)
    /\ UNCHANGED << authVars, page, nSubmits, ctxVars, pollVars, nAuthOps >>

\* handleSubmit after the await, with `setLoading(false)` moved behind both
\* branches (a `finally`-style reset): the form is re-enabled after a success too.
handleSubmitResumesResetsLoading(i) ==
    /\ page = LoginRoute
    /\ pending[i].out # Null
    /\ LET out == Val(pending[i].out) IN
         IF out.threw
         THEN /\ flowLog' = Some([out |-> out, did |-> "unhandled rejection"])
              /\ UNCHANGED << error, loading, navigated >>
         ELSE IF resultIsError(Val(out.result))
         THEN /\ error' = Val(out.result).error
              /\ loading' = FALSE
              /\ flowLog' = Some([out |-> out, did |-> "failed"])
              /\ UNCHANGED navigated
         ELSE /\ navigated' = TRUE
              /\ loading' = FALSE
              /\ flowLog' = Some([out |-> out, did |-> "navigate"])
              /\ UNCHANGED error
    /\ pending' = RemoveAt(pending, i)
    /\ UNCHANGED << authVars, page, nSubmits, ctxVars, pollVars, nAuthOps >>

\* handleSubmit after `await login(...)`. A rejected await ends the handler there
\* (there is no try/catch): nothing is set. A result with a truthy error is
\* stored and the form re-enabled; any other result navigates.
handleSubmitResumes(i) ==
    /\ page = LoginRoute
    /\ pending[i].out # Null
    /\ LET out == Val(pending[i].out) IN
         IF out.threw
         THEN /\ flowLog' = Some([out |-> out, did |-> "unhandled rejection"])
              /\ UNCHANGED << error, loading, navigated >>
         ELSE IF resultIsError(Val(out.result))
         THEN /\ error' = Val(out.result).error
              /\ loading' = FALSE
              /\ flowLog' = Some([out |-> out, did |-> "failed"])
              /\ UNCHANGED navigated
         ELSE /\ navigated' = TRUE
              /\ flowLog' = Some([out |-> out, did |-> "navigate"])
              /\ UNCHANGED << error, loading >>
    /\ pending' = RemoveAt(pending, i)
    /\ UNCHANGED << authVars, page, nSubmits, ctxVars, pollVars, nAuthOps >>

\* window.location.href = "/polls" takes effect: the login page unloads (its
\* suspended handlers die with it) and the landing route loads from scratch.
landingLoads ==
    /\ page = LoginRoute
    /\ navigated
    /\ page' = LandingRoute
    /\ loading' = FALSE
    /\ error' = Null
    /\ pending' = << >>
    /\ navigated' = FALSE
    /\ ctxUser' = Null
    /\ ctxResolved' = FALSE
    /\ cardShown' = pollStored
    /\ UNCHANGED << authVars, flowLog, nSubmits, poll, pollStored, clicks, reloading,
                    nAuthOps >>

\* ------------------------------------------------------- Session Context
\* The context's first getCurrentUser() resolves: the user becomes known.
contextResolves ==
    /\ ~ctxResolved
    /\ ctxUser' = getCurrentUser
    /\ ctxResolved' = TRUE
    /\ UNCHANGED << authVars, page, flowVars, pollVars, nAuthOps >>

\* useAuth(): PollActions takes `user` and nothing else from the context.
useAuth == [user |-> ctxUser]

\* ----------------------------------------------------------- PollActions
\* The guard without the comparison of ids: any signed-in user.
canModifyAnyUser(user, p) == TruthyObj(user)

\* `user && user.id === poll.user_id`
canModify(user, p) == TruthyObj(user) /\ Val(user).id = p.user_id

\* What PollActions renders under the card: the Edit and Delete controls, or
\* nothing (the read-only card).
controlsRendered == cardShown /\ canModify(useAuth.user, poll)
readOnlyRendered == cardShown /\ ~canModify(useAuth.user, poll)

Confirmed(c) == c.confirmed
NoClick == [confirmed |-> FALSE, call |-> "none", handler |-> "done", reloaded |-> FALSE]

\* handleDelete without the `if (confirm(...))`: the prompt is shown and its answer
\* dropped.
handleDeleteIgnoresAnswer(answer) ==
    /\ page = LandingRoute
    /\ controlsRendered
    /\ Len(clicks) < MaxClicks
    /\ clicks' = Append(clicks, [confirmed |-> answer, call |-> "pending",
                                 handler |-> "awaiting", reloaded |-> FALSE])
    /\ UNCHANGED << authVars, page, flowVars, ctxVars, poll, pollStored, cardShown,
                    reloading, nAuthOps >>

\* handleDelete up to `await deletePoll(poll.id)`: a click on Delete opens the
\* blocking prompt; only a yes goes on to call deletePoll.
handleDelete(answer) ==
    /\ page = LandingRoute
    /\ controlsRendered
    /\ Len(clicks) < MaxClicks
    /\ clicks' = Append(clicks,
                        IF answer
                        THEN [confirmed |-> answer, call |-> "pending",
                              handler |-> "awaiting", reloaded |-> FALSE]
                        ELSE [NoClick EXCEPT !.confirmed = answer])
    /\ UNCHANGED << authVars, page, flowVars, ctxVars, poll, pollStored, cardShown,
                    reloading, nAuthOps >>

\* What the poll-actions collaborator may do with a deletePoll call: delete the
\* poll, return without deleting (its own ownership re-check refused), or throw.
DeleteOutcomes == {"deleted", "refused", "threw"}

deletePollServed(k) ==
    /\ clicks[k].call = "pending"
    /\ \E o \in DeleteOutcomes :
          /\ clicks' = [clicks EXCEPT ![k].call = o]
          /\ pollStored' = IF o = "deleted" THEN FALSE ELSE pollStored
    /\ UNCHANGED << authVars, page, flowVars, ctxVars, poll, cardShown, reloading,
                    nAuthOps >>

\* handleDelete without the `await`: it reloads right after calling deletePoll.
handleDeleteResumesWithoutAwait(k) ==
    /\ clicks[k].handler = "awaiting"
    /\ clicks' = [clicks EXCEPT ![k].handler = "done", ![k].reloaded = TRUE]
    /\ reloading' = TRUE
    /\ UNCHANGED << authVars, page, flowVars, ctxVars, poll, pollStored, cardShown,
                    nAuthOps >>

\* handleDelete after `await deletePoll(poll.id)`: a rejected await ends the
\* handler; a returned one reloads the page, whatever was returned.
handleDeleteResumes(k) ==
    /\ clicks[k].handler = "awaiting"
    /\ clicks[k].call \notin {"none", "pending"}
    /\ IF clicks[k].call = "threw"
       THEN /\ clicks' = [clicks EXCEPT ![k].handler = "done"]
            /\ UNCHANGED reloading
       ELSE /\ clicks' = [clicks EXCEPT ![k].handler = "done", ![k].reloaded = TRUE]
            /\ reloading' = TRUE
    /\ UNCHANGED << authVars, page, flowVars, ctxVars, poll, pollStored, cardShown,
                    nAuthOps >>

\* window.location.reload() takes effect: the page unloads (its suspended
\* handlers die with it) and loads again from scratch.
pageReloads ==
    /\ reloading
    /\ reloading' = FALSE
    /\ clicks' = [k \in 1..Len(clicks) |->
                    IF clicks[k].handler = "awaiting"
                    THEN [clicks[k] EXCEPT !.handler = "dead"] ELSE clicks[k]]
    /\ ctxUser' = Null
    /\ ctxResolved' = FALSE
    /\ cardShown' = pollStored
    /\ UNCHANGED << authVars, page, flowVars, poll, pollStored, nAuthOps >>

\* ------------------------------------------- the auth actions, called directly
RegisterData == [email : Emails, password : Passwords, name : Names]

\* login called by any client of the action layer (the server's side of a call).
loginCalled(data) ==
    /\ nAuthOps < MaxAuthOps
    /\ \E run \in login(data) : Serve(run)
    /\ nAuthOps' = nAuthOps + 1
    /\ UNCHANGED << page, flowVars, ctxVars, pollVars >>

registerCalled(data) ==
    /\ nAuthOps < MaxAuthOps
    /\ \E run \in register(data) : Serve(run)
    /\ nAuthOps' = nAuthOps + 1
    /\ UNCHANGED << page, flowVars, ctxVars, pollVars >>

\* The logout path: the action runs and the Session Context clears its user.
logoutCalled ==
    /\ nAuthOps < MaxAuthOps
    /\ \E run \in logout : Serve(run)
    /\ ctxUser' = Null
    /\ nAuthOps' = nAuthOps + 1
    /\ UNCHANGED << page, flowVars, ctxResolved, pollVars >>

\* getCurrentUser() / getSession() called by a server component.
getCurrentUserCalled ==
    /\ nAuthOps < MaxAuthOps
    /\ lastCall' = Call("getCurrentUser", Null, << "getUser" >>, Null, FALSE,
                        Some(getCurrentUser))
    /\ prevCall' = lastCall
    /\ nAuthOps' = nAuthOps + 1
    /\ UNCHANGED << accounts, session, page, flowVars, ctxVars, pollVars >>

\* getSession refreshing the session as it reads it, and dropping it when the
\* refresh fails.
getSessionCalledDropsSession ==
    /\ nAuthOps < MaxAuthOps
    /\ lastCall' = Call("getSession", Null, << "getSession" >>, Null, FALSE,
                        Some(getSession))
    /\ prevCall' = lastCall
    /\ session' \in {session, Null}
    /\ nAuthOps' = nAuthOps + 1
    /\ UNCHANGED << accounts, page, flowVars, ctxVars, pollVars >>

getSessionCalled ==
    /\ nAuthOps < MaxAuthOps
    /\ lastCall' = Call("getSession", Null, << "getSession" >>, Null, FALSE,
                        Some(getSession))
    /\ prevCall' = lastCall
    /\ nAuthOps' = nAuthOps + 1
    /\ UNCHANGED << accounts, session, page, flowVars, ctxVars, pollVars >>

\* ---------------------------------------------------------- specification
\* The backend starts with any set of registered accounts and no session; the
\* client starts on the login page or on the poll listing, nothing in flight.
Init ==
    /\ \E registered \in SUBSET Emails :
          accounts = [e \in Emails |->
                        IF e \in registered
                        THEN Some([password |-> "secret", name |-> "Ada"]) ELSE Null]
    /\ session = Null
    /\ lastCall = NoCall
    /\ prevCall = NoCall
    /\ page \in {LoginRoute, LandingRoute}
    /\ loading = FALSE
    /\ error = Null
    /\ pending = << >>
    /\ navigated = FALSE
    /\ flowLog = Null
    /\ ctxUser = Null
    /\ ctxResolved = FALSE
    /\ poll \in [id : {"p1"}, user_id : Ids]
    /\ pollStored = TRUE
    /\ cardShown = (page = LandingRoute)
    /\ clicks = << >>
    /\ reloading = FALSE
    /\ nSubmits = 0
    /\ nAuthOps = 0

\* The client: the login page, the navigation to the landing route, the Session
\* Context and PollActions on it.
Next ==
    \/ \E data \in Credentials : handleSubmit(data)
    \/ \E i \in 1..Len(pending) : loginServed(i)
    \/ \E i \in 1..Len(pending) : handleSubmitResumes(i)
    \/ landingLoads
    \/ contextResolves
    \/ \E answer \in BOOLEAN : handleDelete(answer)
    \/ \E k \in 1..Len(clicks) : deletePollServed(k)
    \/ \E k \in 1..Len(clicks) : handleDeleteResumes(k)
    \/ pageReloads

Spec == Init /\ [][Next]_vars

\* The auth action layer on its own: any sequence of calls of the five actions.
AuthNext ==
    \/ \E data \in Credentials : loginCalled(data)
    \/ \E data \in RegisterData : registerCalled(data)
    \/ logoutCalled
    \/ getCurrentUserCalled
    \/ getSessionCalled

AuthSpec == Init /\ [][AuthNext]_vars

\* ================================================================= claims
\* The states of the login Flow, read off the component's state.
FlowState ==
    IF navigated THEN "Success"
    ELSE IF loading THEN "Submitting"
    ELSE IF error # Null THEN "Failed"
    ELSE "Idle"

\* The login call made last has been consumed by the handler that made it (under
\* Spec only handleSubmit calls login).
LastLoginConsumed ==
    /\ page = LoginRoute
    /\ lastCall.op = "login"
    /\ pending = << >>

\* C1: while a login call of the Flow is pending the form delivers no further
\* submit event, so at most one login call of the Flow is in flight at any time.
C1_OneLoginInFlight ==
    /\ Len(pending) <= 1
    /\ (loading /\ page = LoginRoute) =>
          \A data \in Credentials : ~ENABLED handleSubmit(data)

\* C1 witness: a login call is in flight, and the model's bound on submit events
\* would still allow another one.
C1_Witness ==
    /\ Len(pending) = 1
    /\ pending[1].out = Null
    /\ loading
    /\ nSubmits < MaxSubmits

\* C2: every result login returns to the Flow has exactly one outcome: a null
\* error navigates to /polls and never fails; a non-null error, whatever string
\* it is, puts the Flow in Failed and never navigates.
C2_ExactlyOneOutcome ==
    (flowLog # Null /\ ~Val(flowLog).out.threw) =>
        LET result == Val(Val(flowLog).out.result)
        IN  /\ (result.error = Null) => Val(flowLog).did = "navigate"
            /\ (result.error # Null) => Val(flowLog).did = "failed"

\* C3: when the adapter rejects a login with message m, the Flow ends in Failed
\* showing exactly m, with the form re-enabled.
C3_RejectionShownVerbatim ==
    (LastLoginConsumed /\ ~lastCall.threw /\ lastCall.adapterError # Null) =>
        /\ FlowState = "Failed"
        /\ error = Some(Val(lastCall.adapterError).message)
        /\ displayedError = Some(Val(lastCall.adapterError).message)
        /\ ~loading
        /\ ~submitDisabled

\* C4: when the login call throws, the Flow ends in Failed with an error message
\* set and the form re-enabled; it is not left in Submitting.
C4_ThrownFailureIsFailed ==
    (LastLoginConsumed /\ lastCall.threw) =>
        /\ FlowState = "Failed"
        /\ TruthyStr(error)
        /\ ~loading
        /\ ~submitDisabled

\* C5: the Edit and Delete controls are rendered if and only if the current user
\* is non-null and its id equals the poll's owner id.
C5_OwnershipGuard ==
    cardShown =>
        /\ (ctxUser = Null) => ~controlsRendered
        /\ (ctxUser # Null /\ Val(ctxUser).id # poll.user_id) => ~controlsRendered
        /\ (ctxUser # Null /\ Val(ctxUser).id = poll.user_id) => controlsRendered

\* C5 witness: the owner is signed in and sees the controls.
C5_Witness ==
    /\ controlsRendered
    /\ ctxUser # Null
    /\ Val(ctxUser).id = poll.user_id

\* C6: deletePoll is invoked only for a click whose prompt was answered yes; a
\* declined prompt leads to no deletePoll call and no reload.
C6_DeleteOnlyAfterConfirm ==
    /\ \A k \in 1..Len(clicks) :
          /\ (clicks[k].call # "none") => clicks[k].confirmed
          /\ clicks[k].reloaded => clicks[k].confirmed
          /\ ~clicks[k].confirmed =>
                (clicks[k].call = "none" /\ clicks[k].handler = "done" /\ ~clicks[k].reloaded)
    /\ reloading => \E k \in 1..Len(clicks) : clicks[k].reloaded

\* C6 witness: one prompt was declined and another confirmed, and the confirmed
\* one has reached deletePoll.
C6_Witness ==
    \E j, k \in 1..Len(clicks) :
        /\ ~clicks[j].confirmed
        /\ clicks[k].confirmed
        /\ clicks[k].call = "deleted"

\* The viewer, as the server knows them, owns the poll.
ViewerIsOwner == session # Null /\ Val(session).id = poll.user_id

\* C7: while the Session Context has not resolved the user, the guard shows
\* neither the owner controls nor the read-only rendering to the actual owner.
C7_NoVerdictWhileUnknown ==
    (page = LandingRoute /\ cardShown /\ ~ctxResolved) =>
        /\ ~controlsRendered
        /\ ~(readOnlyRendered /\ ViewerIsOwner)

\* C8: login, register and logout return {error: m}, m the adapter's message
\* unmodified, when the adapter reports an error, and {error: null} when it
\* reports none; they return nothing else.
C8_ResultShape ==
    (lastCall.op \in {"login", "register", "logout"} /\ ~lastCall.threw) =>
        /\ lastCall.result # Null
        /\ (lastCall.adapterError # Null) =>
              Val(lastCall.result) = [error |-> Some(Val(lastCall.adapterError).message)]
        /\ (lastCall.adapterError = Null) =>
              Val(lastCall.result) = [error |-> Null]

\* C8 witness: a login the adapter rejected with an empty message, after a
\* register it accepted.
C8_Witness ==
    /\ lastCall.op = "login"
    /\ lastCall.adapterError = AuthError("")
    /\ prevCall.op = "register"
    /\ prevCall.result = Some([error |-> Null])

\* C9: a login the adapter rejects returns a non-null error, and with no session
\* before it, getSession called right after it returns null.
C9_RejectedLoginNoSession ==
    /\ (lastCall.op = "login" /\ lastCall.adapterError # Null) =>
          (lastCall.result # Null /\ Val(lastCall.result).error # Null)
    /\ (lastCall.op = "getSession" /\ prevCall.op = "login"
            /\ prevCall.adapterError # Null /\ prevCall.before = Null) =>
          lastCall.result = Some(Null)

\* C9 witness: getSession ran right after a rejected login that found no session,
\* for an account that exists (the password was wrong).
C9_Witness ==
    /\ lastCall.op = "getSession"
    /\ prevCall.op = "login"
    /\ prevCall.adapterError # Null
    /\ prevCall.before = Null
    /\ accounts[Val(prevCall.data).email] # Null

\* C10: getCurrentUser called right after a login the adapter accepted returns a
\* non-null user whose email is the email submitted to login.
C10_AcceptedLoginThenUser ==
    (lastCall.op = "getCurrentUser" /\ prevCall.op = "login"
        /\ ~prevCall.threw /\ prevCall.adapterError = Null) =>
        /\ lastCall.result # Some(Null)
        /\ Val(Val(lastCall.result)).email = Val(prevCall.data).email

\* C10 witness: getCurrentUser ran right after an accepted login of b@x.com that
\* replaced a session of a@x.com.
C10_Witness ==
    /\ lastCall.op = "getCurrentUser"
    /\ prevCall.op = "login"
    /\ prevCall.adapterError = Null
    /\ ~prevCall.threw
    /\ Val(prevCall.data).email = "b@x.com"
    /\ prevCall.before # Null
    /\ Val(prevCall.before).email = "a@x.com"

\* C11: logout is idempotent: with no session (a second logout right after a
\* first included) it returns {error: null} and does not throw; right after a
\* logout that returned {error: null}, getSession and getCurrentUser return null.
C11_LogoutIdempotent ==
    /\ (lastCall.op = "logout" /\ lastCall.before = Null) =>
          (~lastCall.threw /\ lastCall.result = Some([error |-> Null]) /\ session = Null)
    /\ (lastCall.op = "logout" /\ lastCall.result = Some([error |-> Null])) =>
          (session = Null /\ getSession = Null /\ getCurrentUser = Null)
    /\ (lastCall.op \in {"getSession", "getCurrentUser"} /\ prevCall.op = "logout"
            /\ prevCall.result = Some([error |-> Null])) =>
          lastCall.result = Some(Null)

\* C11 witness: a second logout right after a first one that ended a session.
C11_Witness ==
    /\ lastCall.op = "logout"
    /\ lastCall.before = Null
    /\ prevCall.op = "logout"
    /\ prevCall.before # Null
    /\ prevCall.result = Some([error |-> Null])

\* C12: the error of a failed attempt is not kept across attempts: while the Flow
\* is Submitting no error is stored or shown, and when the Flow is Failed with
\* its last login call consumed, the error is the message of that call only.
C12_ErrorOfLatestAttemptOnly ==
    /\ (page = LoginRoute /\ FlowState = "Submitting") =>
          (error = Null /\ displayedError = Null)
    /\ (LastLoginConsumed /\ FlowState = "Failed") =>
          /\ ~lastCall.threw
          /\ lastCall.adapterError # Null
          /\ error = Some(Val(lastCall.adapterError).message)

\* C12 witness: a second attempt is being submitted after a first one failed.
C12_Witness ==
    /\ page = LoginRoute
    /\ nSubmits = 2
    /\ FlowState = "Submitting"
    /\ flowLog # Null
    /\ Val(flowLog).did = "failed"

\* C15: the Flow is in Submitting only while a login call of it is in flight:
\* once the call has resolved or rejected and the handler has run on, the Flow
\* has left Submitting (to Failed, or to Success with navigation).
C15_SubmittingOnlyWhileInFlight ==
    (page = LoginRoute /\ FlowState = "Submitting") =>
        /\ Len(pending) >= 1
        /\ submitDisabled
        /\ submitLabel = "Logging in..."

\* C16: a stored error implies the form is enabled: error non-null and loading
\* true never hold together.
C16_ErrorImpliesEnabled ==
    (page = LoginRoute /\ error # Null) => (~loading /\ ~submitDisabled)

\* C16 witness: an error is stored, after a second attempt.
C16_Witness ==
    /\ page = LoginRoute
    /\ error # Null
    /\ nSubmits = 2
    /\ pending = << >>

\* C17: after a login that returned {error: null} the form is never re-enabled:
\* until the page unloads loading stays true, no error is stored and no submit
\* event can start another login call.
C17_NoResubmitAfterSuccess ==
    (page = LoginRoute /\ navigated) =>
        /\ loading
        /\ error = Null
        /\ submitDisabled
        /\ \A data \in Credentials : ~ENABLED handleSubmit(data)

\* C17 witness: a login returned {error: null}, the page has not unloaded yet,
\* and the bound on submit events would still allow another one.
C17_Witness ==
    /\ page = LoginRoute
    /\ navigated
    /\ flowLog # Null
    /\ Val(flowLog).out.result = Some([error |-> Null])
    /\ nSubmits < MaxSubmits

\* C13: register makes exactly one adapter call, a sign-up carrying the email,
\* the password and the name as profile metadata, and after a register that
\* returned {error: null} the created user's name is the submitted name.
C13_RegisterSetsNameAtCreation ==
    (lastCall.op = "register") =>
        LET data == Val(lastCall.data) IN
        /\ Len(lastCall.calls) = 1
        /\ lastCall.calls[1] = [method |-> "signUp", email |-> data.email,
                                password |-> data.password, name |-> Some(data.name)]
        /\ (lastCall.result = Some([error |-> Null])) =>
              /\ accounts[data.email] # Null
              /\ Val(accounts[data.email]).name = data.name
              /\ getCurrentUser = Some(UserOf(data.email, data.name))

\* C13 witness: a register that succeeded with a name no account had before.
C13_Witness ==
    /\ lastCall.op = "register"
    /\ lastCall.result = Some([error |-> Null])
    /\ Val(lastCall.data).name = "Grace"

\* A step in which getCurrentUser or getSession was called.
ReadStep ==
    /\ nAuthOps' = nAuthOps + 1
    /\ lastCall'.op \in {"getCurrentUser", "getSession"}

\* C14: getCurrentUser and getSession are pure reads: a call leaves the session
\* and the accounts as they were, does not throw, and returns null when no
\* session exists.
C14_ReadsArePure ==
    [][ReadStep =>
          /\ session' = session
          /\ accounts' = accounts
          /\ ~lastCall'.threw
          /\ (session = Null) => lastCall'.result = Some(Null)]_vars

\* C14 witness: getSession was called with no session, right after
\* getCurrentUser was called with one.
C14_Witness ==
    /\ lastCall.op = "getSession"
    /\ lastCall.before = Null
    /\ lastCall.result = Some(Null)
    /\ prevCall.op = "getCurrentUser"

\* C18: the page reload of a click is issued only after that click's deletePoll
\* call has completed without throwing: never while it is pending, never when it
\* threw.
C18_ReloadOnlyAfterDelete ==
    /\ \A k \in 1..Len(clicks) :
          clicks[k].reloaded => clicks[k].call \in {"deleted", "refused"}
    /\ reloading =>
          \E k \in 1..Len(clicks) :
              clicks[k].reloaded /\ clicks[k].call \in {"deleted", "refused"}

\* C18 witness: one click's deletePoll threw and its handler ended without a
\* reload; another click's deletePoll returned and the page is reloading.
C18_Witness ==
    /\ reloading
    /\ \E j, k \in 1..Len(clicks) :
          /\ clicks[j].call = "threw"
          /\ clicks[j].handler = "done"
          /\ ~clicks[j].reloaded
          /\ clicks[k].reloaded

====
